---- MODULE Spec2Model ----
(***************************************************************************)
(* Model of insulin_pump_app.py: the synthetic patient generator           *)
(* (create_patients), the advisor (recommend_adjustment), the Patient      *)
(* accessors and the display pass of main.                                 *)
(*                                                                         *)
(* Numbers.  Glucose values are integers (mg/dL): a normal draw is         *)
(* loc + scale * z where z is a standard normal deviate, and the model     *)
(* keeps 2*z as an integer, so every reading is an integer.  A mean is     *)
(* kept exactly, as the pair sum / count.  Insulin doses are kept in       *)
(* units of 1/UnitDen.                                                     *)
(*                                                                         *)
(* Random streams.  The two library generators (random, numpy.random) are  *)
(* finite-state generators: a global state, a seeding function, a          *)
(* transition and an output read from the state.  Which transition the     *)
(* library implements is left open: Init draws it from a family.           *)
(***************************************************************************)
EXTENDS Integers, Sequences, FiniteSets, TLC

\* ------------------------------------------------------------ bounds
MaxPatients == 2     \* largest count passed to create_patients directly
NpMod == 7           \* number of states of the numpy generator
PyMod == 4           \* number of states of the random generator
UnitDen == 4         \* resolution of a uniform sample: k/UnitDen, k < UnitDen
MonthSlack == 1      \* how far outside 0..11 a month index is tried

\* ------------------------------------------------------------ program constants
Seed == 42
DaysInMonth == 30
NumMonths == 12
MainCount == 10
BgLow == 50
BgHigh == 350
BaseCentre == 140
BaseScale == 10
BgScale == 20
PumpShift == 5
BasalLow == 18
BasalHigh == 40
BolusLow == 15
BolusHigh == 35
DawnLimit == 150
ExerciseLimit == 120
IllnessLimit == 170
HighLimit == 180
LowLimit == 80

first_names == <<"Alex", "Casey", "Jordan", "Taylor", "Morgan",
                 "Robin", "Blake", "Sydney", "Jamie", "Avery">>
last_names == <<"Nguyen", "Smith", "Patel", "Kim", "Garcia",
                "Brown", "Hernandez", "Lee", "Johnson", "Davis">>
pump_choices == <<"Omnipod", "Tandem t:slim X2", "Medtronic 780G">>
month_names == <<"January", "February", "March", "April", "May", "June",
                 "July", "August", "September", "October", "November", "December">>

\* Twice the standard normal deviate read from a numpy generator state.
ZTable == <<4, 3, -4, -5, -7, 15, 0>>

VARIABLES
    gen,        \* the generators' transition parameters (fixed by Init)
    pyState,    \* global state of the random module
    npState,    \* global state of numpy.random
    patients,   \* the dataset most recently returned by create_patients
    basis,      \* per patient-month of patients: the base draw, the base mean
                \* and the numpy state the readings were drawn from
    returned,   \* per count, the datasets direct calls of create_patients returned
    out         \* what the last operation returned, raised or displayed

vars == <<gen, pyState, npState, patients, basis, returned, out>>

\* ------------------------------------------------------------ generators
\* random.seed / np.random.seed: the state is a function of the seed alone.
PySeed(seed) == seed % PyMod
NpSeed(seed) == seed % NpMod

PyNext(g, s) == (s + g.pyInc) % PyMod
NpNext(g, s) == (g.npA * s + g.npC) % NpMod

\* random.choice(seq): seq[randbelow(len(seq))]
Choice(seq, s) == seq[(s % Len(seq)) + 1]

\* Twice the deviate of np.random.standard_normal in state s.
Z2(s) == ZTable[(s % Len(ZTable)) + 1]

\* np.random.normal(loc, scale) in state s: loc + scale * z
Normal(loc, scale, s) == loc + (scale * Z2(s)) \div 2

\* np.random.uniform(low, high) in state s: low + (high - low) * u, u in [0, 1),
\* in units of 1/UnitDen.
Uniform(low, high, s) == low * UnitDen + (high - low) * (s % UnitDen)

NoClip(x, lo, hi) == x

\* np.clip(x, lo, hi)
Clip(x, lo, hi) == IF x < lo THEN lo ELSE IF x > hi THEN hi ELSE x

RECURSIVE SumTo(_, _)
SumTo(q, i) == IF i = 0 THEN 0 ELSE q[i] + SumTo(q, i - 1)

\* np.mean(values), exactly: sum / count.
Mean(values) == [num |-> SumTo(values, Len(values)), den |-> Len(values)]
MeanGT(m, t) == m.num > t * m.den
MeanLT(m, t) == m.num < t * m.den

\* ------------------------------------------------------------ data model
\* Patient.name is f"{first} {last}": kept as the pair of its parts.
\* MonthlyData.notes is one of four texts around the month's name: kept as
\* the pair <<which text, month name>>.
NoteKinds == {"dawn phenomenon", "exercise", "illness", "routine"}
Note(kind, month_name) == <<kind, month_name>>

MonthlyData(bg_values, basal_units, bolus_units, notes) ==
    [bg_values |-> bg_values, basal_units |-> basal_units,
     bolus_units |-> bolus_units, notes |-> notes]

\* ------------------------------------------------------------ _generate_name
\* Two draws of the random module, first name then last name.
GenerateName(g, s) ==
    [name |-> <<Choice(first_names, s), Choice(last_names, PyNext(g, s))>>,
     s |-> PyNext(g, PyNext(g, s))]

\* ------------------------------------------------------------ create_patients
\* base_mean = 140 + np.random.normal(0, 10); if pump != "Omnipod": base_mean -= 5
BaseMean(draw, pump) ==
    IF pump # "Omnipod" THEN BaseCentre + draw - PumpShift ELSE BaseCentre + draw

\* The generator states of k successive draws from state s, and the state
\* left behind: <<s, next(s), .., next^k(s)>>.
RECURSIVE DrawStates(_, _, _, _)
DrawStates(g, s, k, acc) ==
    IF k = 0 THEN Append(acc, s)
    ELSE DrawStates(g, NpNext(g, s), k - 1, Append(acc, s))

\* bg_values = np.random.normal(loc=base_mean, scale=20, size=days_in_month)
\* drawn in the states st[1..days_in_month], then np.clip(bg_values, 50, 350).
Readings(base_mean, st) ==
    [d \in 1 .. DaysInMonth |-> Clip(Normal(base_mean, BgScale, st[d]), BgLow, BgHigh)]

BasalFromBolusLow(s) == Uniform(BolusLow, BasalHigh, s)

BasalUnits(s) == Uniform(BasalLow, BasalHigh, s)
BolusUnits(s) == Uniform(BolusLow, BolusHigh, s)

\* The chain with its first rule testing the month's average.
ComposeNoteByAverage(m_idx, base_mean, bg_values) ==
    LET month_name == month_names[m_idx + 1]
        avg == Mean(bg_values)
    IN  IF m_idx \in {0, 1} /\ MeanGT(avg, DawnLimit)
            THEN Note("dawn phenomenon", month_name)
        ELSE IF m_idx \in {3, 4, 5} /\ MeanLT(avg, ExerciseLimit)
            THEN Note("exercise", month_name)
        ELSE IF m_idx \in {9} /\ MeanGT(avg, IllnessLimit)
            THEN Note("illness", month_name)
        ELSE Note("routine", month_name)

\* The if / elif / elif / else chain composing the note.
ComposeNote(m_idx, base_mean, bg_values) ==
    LET month_name == month_names[m_idx + 1]
        avg == Mean(bg_values)
    IN  IF m_idx \in {0, 1} /\ base_mean > DawnLimit
            THEN Note("dawn phenomenon", month_name)
        ELSE IF m_idx \in {3, 4, 5} /\ MeanLT(avg, ExerciseLimit)
            THEN Note("exercise", month_name)
        ELSE IF m_idx \in {9} /\ MeanGT(avg, IllnessLimit)
            THEN Note("illness", month_name)
        ELSE Note("routine", month_name)

\* The month with the pump reduction applied only after the readings are drawn.
GenMonthShiftLate(g, s, pump, m_idx) ==
    LET draw == Normal(0, BaseScale, s)
        raw_mean == BaseCentre + draw
        base_mean == BaseMean(draw, pump)
        st == DrawStates(g, NpNext(g, s), DaysInMonth + 2, <<>>)
        bg_values == Readings(raw_mean, st)
    IN  [md |-> MonthlyData(bg_values, BasalUnits(st[DaysInMonth + 1]),
                            BolusUnits(st[DaysInMonth + 2]),
                            ComposeNote(m_idx, base_mean, bg_values)),
         basis |-> [draw |-> draw, base_mean |-> base_mean, s |-> NpNext(g, s)],
         s |-> st[DaysInMonth + 3]]

\* One pass of the body of "for m_idx in range(12)", from numpy state s:
\* one draw for the base mean, days_in_month for the readings, one each for
\* basal and bolus.
GenMonth(g, s, pump, m_idx) ==
    LET draw == Normal(0, BaseScale, s)
        base_mean == BaseMean(draw, pump)
        st == DrawStates(g, NpNext(g, s), DaysInMonth + 2, <<>>)
        bg_values == Readings(base_mean, st)
    IN  [md |-> MonthlyData(bg_values, BasalUnits(st[DaysInMonth + 1]),
                            BolusUnits(st[DaysInMonth + 2]),
                            ComposeNote(m_idx, base_mean, bg_values)),
         basis |-> [draw |-> draw, base_mean |-> base_mean, s |-> NpNext(g, s)],
         s |-> st[DaysInMonth + 3]]

RECURSIVE GenMonths(_, _, _, _, _, _)
GenMonths(g, s, pump, m_idx, mds, bs) ==
    IF m_idx >= NumMonths THEN [mds |-> mds, bs |-> bs, s |-> s]
    ELSE LET r == GenMonth(g, s, pump, m_idx)
         IN  GenMonths(g, r.s, pump, m_idx + 1, Append(mds, r.md), Append(bs, r.basis))

\* Patient(id, name, pump_type, months): months is a dict keyed 0..11.
MakePatient(pid, name, pump, mds) ==
    [id |-> pid, name |-> name, pump_type |-> pump,
     months |-> [m \in 0 .. (Len(mds) - 1) |-> mds[m + 1]]]

\* One pass of the body of "for pid in range(num_patients)".
GenPatient(g, ps, ns, pid) ==
    LET nm == GenerateName(g, ps)
        pump == Choice(pump_choices, nm.s)
        ms == GenMonths(g, ns, pump, 0, <<>>, <<>>)
    IN  [patient |-> MakePatient(pid, nm.name, pump, ms.mds),
         basis |-> [m \in 0 .. (Len(ms.bs) - 1) |-> ms.bs[m + 1]],
         ps |-> PyNext(g, nm.s), ns |-> ms.s]

RECURSIVE GenPatients(_, _, _, _, _, _, _)
GenPatients(g, ps, ns, pid, num_patients, acc, bacc) ==
    IF pid >= num_patients
        THEN [patients |-> acc, basis |-> bacc, ps |-> ps, ns |-> ns]
    ELSE LET r == GenPatient(g, ps, ns, pid)
         IN  GenPatients(g, r.ps, r.ns, pid + 1, num_patients,
                         Append(acc, r.patient), Append(bacc, r.basis))

KeepRandom(ps) == ps
KeepNumpy(ns) == ns

\* random.seed(42); np.random.seed(42): the states generation starts from,
\* given the global states ps, ns the call finds.
SeedRandom(ps) == PySeed(Seed)
SeedNumpy(ns) == NpSeed(Seed)

\* Generation seeded by the count.
create_patients_seeded_by_count(g, ps, ns, num_patients) ==
    GenPatients(g, PySeed(Seed + num_patients), NpSeed(Seed + num_patients),
                0, num_patients, <<>>, <<>>)

\* create_patients(num_patients) called with the global states ps, ns.
create_patients(g, ps, ns, num_patients) ==
    GenPatients(g, SeedRandom(ps), SeedNumpy(ns), 0, num_patients, <<>>, <<>>)

\* ------------------------------------------------------------ Patient methods
KeyError == [raised |-> "KeyError"]
IndexError == [raised |-> "IndexError"]
Returned(v) == [raised |-> "none", value |-> v]

\* The lookup of a list: negative indices count from the end.
MonthsLookupWrap(patient, month_index) ==
    LET n == Cardinality(DOMAIN patient.months)
    IN  IF month_index \in DOMAIN patient.months
            THEN Returned(patient.months[month_index])
        ELSE IF month_index < 0 /\ month_index + n \in DOMAIN patient.months
            THEN Returned(patient.months[month_index + n])
        ELSE IndexError

\* self.months[month_index]: a dict lookup, KeyError for a missing key.
MonthsLookup(patient, month_index) ==
    IF month_index \in DOMAIN patient.months
        THEN Returned(patient.months[month_index])
        ELSE KeyError

\* Patient.average_bg
average_bg(patient, month_index) ==
    LET month_data == MonthsLookup(patient, month_index)
    IN  IF month_data.raised # "none" THEN month_data
        ELSE Returned(Mean(month_data.value.bg_values))

\* Patient.metrics_for_month
metrics_for_month(patient, month_index) ==
    LET md == MonthsLookup(patient, month_index)
    IN  IF md.raised # "none" THEN md
        ELSE Returned(<<Mean(md.value.bg_values), md.value.basal_units,
                        md.value.bolus_units>>)

\* ------------------------------------------------------------ recommend_adjustment
AboveTarget == "Average blood glucose is above target."
BelowTarget == "Average blood glucose is below target."
WithinTarget == "Average blood glucose is within target range."

ClassifyInclusive(avg_bg) ==
    IF ~MeanLT(avg_bg, HighLimit) THEN AboveTarget
    ELSE IF ~MeanGT(avg_bg, LowLimit) THEN BelowTarget
    ELSE WithinTarget

Classify(avg_bg) ==
    IF MeanGT(avg_bg, HighLimit) THEN AboveTarget
    ELSE IF MeanLT(avg_bg, LowLimit) THEN BelowTarget
    ELSE WithinTarget

recommend_adjustment(patient, month_index) ==
    LET m == metrics_for_month(patient, month_index)
    IN  IF m.raised # "none" THEN m
        ELSE Returned(Classify(m.value[1]))

\* ------------------------------------------------------------ _format_month
\* month_names[index]: a list index; -12..-1 count from the end.
format_month(index) ==
    IF index >= 0 /\ index < Len(month_names) THEN Returned(month_names[index + 1])
    ELSE IF index < 0 /\ index >= -Len(month_names)
        THEN Returned(month_names[index + Len(month_names) + 1])
    ELSE IndexError

\* ------------------------------------------------------------ state machine
Counts == 0 .. MaxPatients
MonthInputs == (-MonthSlack) .. (NumMonths - 1 + MonthSlack)
\* The generators tried.  random: state + pyInc, pyInc = 0 (every draw the
\* same) or 1 (a full cycle).  numpy: npA * state + npC; npA = 0 gives, after
\* the first draw, the constant stream of each state npC, and npA = 1 is
\* taken with npC = 1, the full cycle.
Gens == {g \in [npA : 0 .. 1, npC : 0 .. (NpMod - 1), pyInc : 0 .. 1] :
            g.npA = 1 => g.npC = 1}
NoOut == [op |-> "none"]

Init ==
    /\ gen \in Gens
    /\ pyState = 0
    /\ npState = 0
    /\ patients = <<>>
    /\ basis = <<>>
    /\ returned = [n \in Counts |-> {}]
    /\ out = NoOut

\* Other code of the process draws from the random module.
ConsumeRandom ==
    /\ pyState' = PyNext(gen, pyState)
    /\ UNCHANGED <<gen, npState, patients, basis, returned, out>>

\* Other code of the process draws from numpy.random.
ConsumeNumpy ==
    /\ npState' = NpNext(gen, npState)
    /\ UNCHANGED <<gen, pyState, patients, basis, returned, out>>

CreatePatients(n) ==
    \E r \in {create_patients(gen, pyState, npState, n)} :
        /\ patients' = r.patients
        /\ basis' = r.basis
        /\ pyState' = r.ps
        /\ npState' = r.ns
        /\ returned' = [returned EXCEPT ![n] = @ \cup {r.patients}]
        /\ out' = [op |-> "create_patients", count |-> n,
                   again |-> returned[n] # {}]
        /\ UNCHANGED gen

AverageBg(pid, month_index) ==
    /\ out' = [op |-> "average_bg", pid |-> pid, month_index |-> month_index,
               result |-> average_bg(patients[pid + 1], month_index)]
    /\ UNCHANGED <<gen, pyState, npState, patients, basis, returned>>

MetricsForMonth(pid, month_index) ==
    /\ out' = [op |-> "metrics_for_month", pid |-> pid, month_index |-> month_index,
               result |-> metrics_for_month(patients[pid + 1], month_index)]
    /\ UNCHANGED <<gen, pyState, npState, patients, basis, returned>>

RecommendAdjustment(pid, month_index) ==
    /\ out' = [op |-> "recommend_adjustment", pid |-> pid, month_index |-> month_index,
               result |-> recommend_adjustment(patients[pid + 1], month_index)]
    /\ UNCHANGED <<gen, pyState, npState, patients, basis, returned>>

\* The last match instead of the first.
RECURSIVE LastMatch(_, _, _)
LastMatch(ps, selected_name, i) ==
    IF i > Len(ps) THEN [raised |-> "StopIteration"]
    ELSE LET later == LastMatch(ps, selected_name, i + 1)
         IN  IF later.raised = "none" THEN later
             ELSE IF ps[i].name = selected_name THEN Returned(ps[i])
             ELSE later

\* next(p for p in patients if p.name == selected_name), scanning from
\* position i: the first match, or StopIteration.
RECURSIVE NextMatch(_, _, _)
NextMatch(ps, selected_name, i) ==
    IF i > Len(ps) THEN [raised |-> "StopIteration"]
    ELSE IF ps[i].name = selected_name THEN Returned(ps[i])
    ELSE NextMatch(ps, selected_name, i + 1)

\* What one pass of main shows for the option picked in the select box and
\* the slider's month, over the patients it generated.
Display(ps, selected_name, month_index) ==
    LET found == NextMatch(ps, selected_name, 1)
        selected_patient == found.value
        metrics == metrics_for_month(selected_patient, month_index).value
        md == selected_patient.months[month_index]
    IN  IF found.raised # "none"
            THEN [op |-> "main", raised |-> found.raised,
                  selected_name |-> selected_name, month_index |-> month_index]
        ELSE [op |-> "main", raised |-> "none",
              selected_name |-> selected_name, month_index |-> month_index,
              shown_id |-> selected_patient.id,
              profile_name |-> selected_patient.name,
              pump_type |-> selected_patient.pump_type,
              month_name |-> format_month(month_index).value,
              chart |-> md.bg_values,
              bars |-> <<md.basal_units, md.bolus_units>>,
              avg_bg |-> metrics[1], basal_units |-> metrics[2],
              bolus_units |-> metrics[3],
              notes |-> selected_patient.months[month_index].notes,
              rec |-> recommend_adjustment(selected_patient, month_index).value]

\* One run of main(): the script runs from the top on every interaction, so
\* the patients are generated again, then the widgets are read and the page
\* is drawn.
MainPass ==
    \E r \in {create_patients(gen, pyState, npState, MainCount)} :
        /\ patients' = r.patients
        /\ basis' = r.basis
        /\ pyState' = r.ps
        /\ npState' = r.ns
        /\ UNCHANGED returned
        /\ \E i \in 1 .. Len(r.patients), month_index \in 0 .. (NumMonths - 1) :
              out' = [Display(r.patients, r.patients[i].name, month_index)
                        EXCEPT !.op = IF patients = <<>> THEN "main" ELSE "main again"]
        /\ UNCHANGED gen

Pids == 0 .. (Len(patients) - 1)

Query ==
    \E pid \in Pids, month_index \in MonthInputs :
        \/ AverageBg(pid, month_index)
        \/ MetricsForMonth(pid, month_index)
        \/ RecommendAdjustment(pid, month_index)

Next ==
    \/ ConsumeRandom
    \/ ConsumeNumpy
    \/ \E n \in Counts : CreatePatients(n)
    \/ Query
    \/ MainPass

Spec == Init /\ [][Next]_vars

\* ---- generation: direct calls of create_patients between which other code
\* draws from the two global generators.

NextGen ==
    \/ ConsumeRandom
    \/ ConsumeNumpy
    \/ \E n \in Counts : CreatePatients(n)

SpecGen == Init /\ [][NextGen]_vars

\* ---- the advisor and the accessors, applied to a dataset create_patients
\* returned: Init is the state such a call leaves.
InitAdvisor ==
    \E g \in Gens, n \in Counts \ {0} :
        \E r \in {create_patients(g, 0, 0, n)} :
            /\ gen = g
            /\ pyState = r.ps
            /\ npState = r.ns
            /\ patients = r.patients
            /\ basis = r.basis
            /\ returned = [c \in Counts |-> IF c = n THEN {r.patients} ELSE {}]
            /\ out = [op |-> "create_patients", count |-> n, again |-> FALSE]

SpecAdvisor == InitAdvisor /\ [][Query]_vars

\* ---- the display session: passes of main and calls on the patients it
\* holds, for the generator whose two streams are full cycles.
InitSession == Init /\ gen.npA = 1 /\ gen.pyInc = 1

NextSession == MainPass \/ Query

SpecSession == InitSession /\ [][NextSession]_vars
\* ============================================================ properties
PatientMonths == (1 .. Len(patients)) \X (0 .. (NumMonths - 1))
MonthOf(im) == patients[im[1]].months[im[2]]
BasisOf(im) == basis[im[1]][im[2]]
SumOf(im) == SumTo(MonthOf(im).bg_values, Len(MonthOf(im).bg_values))
\* The value of reading d of a patient-month before clipping.
Unclipped(im, d) ==
    BasisOf(im).base_mean
        + (BgScale * Z2(DrawStates(gen, BasisOf(im).s, d - 1, <<>>)[d])) \div 2
QueryOps == {"average_bg", "metrics_for_month", "recommend_adjustment"}
MainOps == {"main", "main again"}

\* C1: every call of create_patients with a given count returns the same
\* dataset, whatever the two global generators' states were when it was made.
C1_Deterministic == \A n \in DOMAIN returned : Cardinality(returned[n]) <= 1

\* A count was generated a second time, by generators whose streams move.
C1_Witness ==
    /\ out.op = "create_patients" /\ out.again /\ out.count = MaxPatients
    /\ gen.npA = 1 /\ gen.pyInc = 1

\* C3: create_patients(N) returns N patients with ids 0..N-1 in order, each
\* with the month keys 0..11, each month with 30 readings, every reading
\* within [50, 350].
C3_Structure ==
    /\ out.op = "create_patients" => Len(patients) = out.count
    /\ \A i \in 1 .. Len(patients) :
          /\ patients[i].id = i - 1
          /\ DOMAIN patients[i].months = 0 .. 11
          /\ \A m \in 0 .. 11 :
                /\ DOMAIN patients[i].months[m].bg_values = 1 .. 30
                /\ \A d \in 1 .. 30 :
                      /\ patients[i].months[m].bg_values[d] >= 50
                      /\ patients[i].months[m].bg_values[d] <= 350

\* Two patients were generated and a draw outside the range was clipped to
\* the nearest bound.
C3_Witness ==
    /\ Len(patients) = 2
    /\ \E im \in PatientMonths : \E d \in 1 .. DaysInMonth :
          \/ Unclipped(im, d) < 50 /\ MonthOf(im).bg_values[d] = 50
          \/ Unclipped(im, d) > 350 /\ MonthOf(im).bg_values[d] = 350

C5_NoteChain ==
    \A im \in PatientMonths :
        LET m == im[2]
            kind == MonthOf(im).notes[1]
            n == Len(MonthOf(im).bg_values)
            rule1 == m \in {0, 1} /\ BasisOf(im).base_mean > 150
            rule2 == m \in {3, 4, 5} /\ SumOf(im) < 120 * n
            rule3 == m = 9 /\ SumOf(im) > 170 * n
        IN  /\ rule1 => kind = "dawn phenomenon"
            /\ ~rule1 /\ rule2 => kind = "exercise"
            /\ ~rule1 /\ ~rule2 /\ rule3 => kind = "illness"
            /\ ~rule1 /\ ~rule2 /\ ~rule3 => kind = "routine"
            /\ m \in {2, 6, 7, 8, 10, 11} => kind = "routine"
            /\ kind \in NoteKinds
            /\ MonthOf(im).notes[2] = month_names[m + 1]

\* A January with base mean 160 and monthly average 90 that got the dawn
\* phenomenon note, in a dataset that also has an exercise note.
C5_Witness ==
    /\ \E im \in PatientMonths :
          /\ im[2] = 0 /\ BasisOf(im).base_mean = 160
          /\ SumOf(im) = 90 * DaysInMonth
          /\ MonthOf(im).notes[1] = "dawn phenomenon"
    /\ \E im \in PatientMonths : MonthOf(im).notes[1] = "exercise"

\* C8: the base mean of a patient-month is 140 plus the normal draw, less 5
\* exactly when the pump is not "Omnipod"; the readings are the draws centred
\* on that reduced mean, clipped; and in months 0 and 1 the dawn phenomenon
\* note is given exactly when the reduced mean exceeds 150.
C8_ReducedMean ==
    \A im \in PatientMonths :
        LET b == BasisOf(im)
            st == DrawStates(gen, b.s, DaysInMonth - 1, <<>>)
        IN  /\ b.base_mean = IF patients[im[1]].pump_type = "Omnipod"
                                THEN 140 + b.draw ELSE 140 + b.draw - 5
            /\ \A d \in 1 .. DaysInMonth :
                  MonthOf(im).bg_values[d] =
                      Clip(b.base_mean + (20 * Z2(st[d])) \div 2, 50, 350)
            /\ im[2] \in {0, 1} =>
                  (MonthOf(im).notes[1] = "dawn phenomenon" <=> b.base_mean > 150)

\* A patient not on Omnipod whose month 0 or 1 has a raw mean above 150 and
\* a reduced mean not above it, and no dawn phenomenon note.
C8_Witness ==
    \E im \in PatientMonths :
        /\ patients[im[1]].pump_type # "Omnipod"
        /\ im[2] \in {0, 1}
        /\ 140 + BasisOf(im).draw > 150
        /\ BasisOf(im).base_mean <= 150
        /\ MonthOf(im).notes[1] = "routine"

\* C9: for N <= M the dataset of create_patients(N) is the first N patients
\* of the dataset of create_patients(M).
C9_PrefixStable ==
    \A n \in DOMAIN returned : \A m \in DOMAIN returned :
        n <= m =>
            \A d \in returned[n] : \A e \in returned[m] :
                Len(e) >= n /\ d = SubSeq(e, 1, n)

\* Counts 1 and 2 have both been generated, by generators whose streams move.
C9_Witness ==
    /\ returned[1] # {} /\ returned[2] # {}
    /\ gen.npA = 1 /\ gen.pyInc = 1

\* The sum and the number of the readings recommend_adjustment was asked about.
AskedMonth == patients[out.pid + 1].months[out.month_index]
AskedSum == SumTo(AskedMonth.bg_values, Len(AskedMonth.bg_values))
AskedLen == Len(AskedMonth.bg_values)

\* C2: for a month index 0..11 recommend_adjustment returns the above-target
\* text when the mean of the readings is > 180, the below-target text when it
\* is < 80 and the within-target text otherwise, 80 and 180 included; always
\* one of the three.
C2_Thresholds ==
    (out.op = "recommend_adjustment" /\ out.month_index \in 0 .. 11) =>
        /\ out.result.raised = "none"
        /\ AskedSum > 180 * AskedLen => out.result.value = AboveTarget
        /\ AskedSum < 80 * AskedLen => out.result.value = BelowTarget
        /\ (AskedSum >= 80 * AskedLen /\ AskedSum <= 180 * AskedLen)
              => out.result.value = WithinTarget
        /\ out.result.value \in {AboveTarget, BelowTarget, WithinTarget}

\* A month whose mean is exactly 180 got the within-target text.
C2_Witness ==
    /\ out.op = "recommend_adjustment" /\ out.month_index \in 0 .. 11
    /\ AskedSum = 180 * AskedLen
    /\ out.result.value = WithinTarget

\* C6: a call of recommend_adjustment, average_bg or metrics_for_month with a
\* month index outside 0..11 raises the lookup error and returns no value,
\* and no call changes the patients.
C6_OutOfRange ==
    [][/\ (out'.op \in QueryOps /\ out'.month_index \notin 0 .. 11)
            => out'.result = KeyError
       /\ out'.op \in QueryOps => patients' = patients]_vars

\* recommend_adjustment was called with month index -1 and raised.
C6_Witness ==
    /\ out.op = "recommend_adjustment" /\ out.month_index = -1
    /\ out.result.raised = "KeyError"
    /\ patients # <<>>

\* C7: once generated, the patients are never changed by calls of
\* recommend_adjustment, average_bg or metrics_for_month or by further passes
\* of main, and recommend_adjustment returns a value for every month index
\* 0..11.
C7_Immutable ==
    [][/\ patients # <<>> => (patients' = patients /\ basis' = basis)
       /\ (out'.op = "recommend_adjustment" /\ out'.month_index \in 0 .. 11)
            => out'.result.raised = "none"]_vars

\* A further pass of main ran over patients that were already generated.
C7_Witness == out.op = "main again" /\ Len(patients) = MainCount

\* C10: a pass of main finds the selected name, shows the patient of lowest
\* id that has it, and every value shown is that patient's, for the selected
\* month.
C10_ShownPatient ==
    out.op \in MainOps =>
        /\ out.raised = "none"
        /\ out.shown_id \in 0 .. (Len(patients) - 1)
        /\ LET p == patients[out.shown_id + 1]
               md == p.months[out.month_index]
               n == Len(md.bg_values)
               sum == SumTo(md.bg_values, n)
           IN  /\ p.id = out.shown_id
               /\ p.name = out.selected_name
               /\ \A i \in 1 .. Len(patients) :
                     patients[i].name = out.selected_name
                         => patients[i].id >= out.shown_id
               /\ out.profile_name = p.name
               /\ out.pump_type = p.pump_type
               /\ out.month_name = month_names[out.month_index + 1]
               /\ out.chart = md.bg_values
               /\ out.bars = <<md.basal_units, md.bolus_units>>
               /\ out.avg_bg = [num |-> sum, den |-> n]
               /\ out.basal_units = md.basal_units
               /\ out.bolus_units = md.bolus_units
               /\ out.notes = md.notes
               /\ out.rec = IF sum > 180 * n THEN AboveTarget
                            ELSE IF sum < 80 * n THEN BelowTarget
                            ELSE WithinTarget

\* The selected name is also the name of a patient of higher id whose month
\* differs from the one shown.
C10_Witness ==
    /\ out.op \in MainOps
    /\ \E i \in 1 .. Len(patients) :
          /\ patients[i].name = out.selected_name
          /\ patients[i].id > out.shown_id
          /\ patients[i].months[out.month_index]
                # patients[out.shown_id + 1].months[out.month_index]

====
